---------------------------- MODULE Spec2Model ----------------------------
(***************************************************************************)
(* A model of the file fingerprinting code of opensubtitlescom             *)
(* (FileUtils.get_hash, FileUtils.get_md5 in file_utils.py) and of         *)
(* OpenSubtitles.parse_srt (opensubtitles.py).                             *)
(*                                                                         *)
(* Python integers are unbounded, TLC's are 32 bits wide, so a Python int  *)
(* of the hash computation is kept as a record [top, d]: d holds the low   *)
(* 64 bits as 8 base-256 digits, least significant first, and top is the   *)
(* rest of the two's complement number (0 for 0..2^64-1, -1 for            *)
(* -2^64..-1, 1 for 2^64..2^65-1):  value = top * 2^64 + SUM d[k]*256^(k-1)*)
(***************************************************************************)
EXTENDS Integers, Sequences, FiniteSets, TLC

(* ----------------------------- constants ------------------------------ *)

\* file_utils.py:71  bytesize = struct.calcsize("q")
bytesize == 8

\* file_utils.py:73, 78, 84, 85  the literal 65536
WindowBytes == 65536

\* file_utils.py:82, 89  0xFFFFFFFFFFFFFFFF is 8 digits of 255
Radix == 256

\* file_utils.py:78, 85  range(65536 // bytesize)
WindowChunks == WindowBytes \div bytesize

HexDigits == <<"0", "1", "2", "3", "4", "5", "6", "7",
               "8", "9", "a", "b", "c", "d", "e", "f">>

(* --------------------------- the file system -------------------------- *)

\* The content of a file is a function of the byte offset, named by a pattern:
\* "gap" is zero but for the five bytes that follow the first 65536.
Byte(pat, k) ==
    CASE pat = "zero" -> 0
      [] pat = "ones" -> 255
      [] pat = "ramp" -> ((k % 251) * 13 + (k \div 64)) % 256
      [] pat = "high" -> IF k % 8 = 7 THEN 128 + ((k \div 8) % 128)
                                      ELSE (k * 5) % 256
      [] pat = "gap"  -> IF k >= 65536 /\ k < 65541 THEN 255 ELSE 0

\* how many bytes the "gap" file has beyond its two windows
ExtraBytes == 5

\* The files a run starts with: sizes on both sides of the 131072 limit.
Files ==
    { [size |-> 0,      pat |-> "zero"],
      [size |-> 65536,  pat |-> "ones"],
      [size |-> 131071, pat |-> "ramp"],
      [size |-> 131072, pat |-> "zero"],
      [size |-> 131072, pat |-> "high"],
      [size |-> 2 * WindowBytes + ExtraBytes, pat |-> "gap"],
      [size |-> 196608, pat |-> "ramp"] }

\* Sizes another process may truncate the file to while get_hash runs.
TruncSizes == {65540, 131071}

\* hashlib.md5(content).hexdigest() of the contents above (first n bytes of pat)
md5_hexdigest(pat, n) ==
    CASE pat = "gap"  /\ n = 65540  -> "7f77039ff0eebbbfafd2738211573c6a"
      [] pat = "gap"  /\ n = 131071 -> "0c9986e636417e0821ea0b4eae72b6fd"
      [] pat = "gap"  /\ n = 131077 -> "4cbfd152d260e5fc000d5aaf85144d35"
      [] pat = "gap"  /\ n = 131078 -> "086e92aff356ce37595c195c88c65cc1"
      [] pat = "high" /\ n = 65540  -> "3750d066ac5f677dfea477771249cf9f"
      [] pat = "high" /\ n = 131071 -> "2a27df8e8ab001aefb8a58a50378453f"
      [] pat = "high" /\ n = 131072 -> "2387801b6e609c12fe9c57a656e65e3d"
      [] pat = "ones" /\ n = 65536  -> "ecb99e6ffea7be1e5419350f725da86b"
      [] pat = "ramp" /\ n = 65540  -> "16c67e717e1ad263e3006829bff18b95"
      [] pat = "ramp" /\ n = 131071 -> "f15390d3b9cf86b769b8a6931b962fd3"
      [] pat = "ramp" /\ n = 196608 -> "d25f18ce583309e30c10c23cafb8d545"
      [] pat = "zero" /\ n = 0      -> "d41d8cd98f00b204e9800998ecf8427e"
      [] pat = "zero" /\ n = 65540  -> "f6feec86715a73eabac51fe6a4c90f33"
      [] pat = "zero" /\ n = 131071 -> "8572c8695bacf8d459e98dc874dc9b08"
      [] pat = "zero" /\ n = 131072 -> "0dfbe8aa4c20b52e1b8bf3cb6cbdf193"

(* ------------------------- unbounded integers ------------------------- *)

Digits == 1..bytesize

RECURSIVE CarryOut(_, _, _)
\* the carry out of digit k of a + b (0 for k = 0)
CarryOut(a, b, k) ==
    IF k = 0 THEN 0
    ELSE (a[k] + b[k] + CarryOut(a, b, k - 1)) \div Radix

\* x + y on Python ints
Plus(x, y) ==
    [top |-> x.top + y.top + CarryOut(x.d, y.d, bytesize),
     d   |-> [k \in Digits |-> (x.d[k] + y.d[k] + CarryOut(x.d, y.d, k - 1)) % Radix]]

\* mutant: the mask left out
And64_nomask(x) == x

\* x & 0xFFFFFFFFFFFFFFFF on Python ints (two's complement of infinite width)
And64(x) == [top |-> 0, d |-> x.d]

RECURSIVE Pow256(_)
Pow256(k) == IF k = 0 THEN 1 ELSE Radix * Pow256(k - 1)

\* a file size (0 .. 2^31-1) as a Python int
FromSize(n) ==
    [top |-> 0,
     d   |-> [k \in Digits |-> IF k <= 4 THEN (n \div Pow256(k - 1)) % Radix ELSE 0]]

\* mutant: the 8 bytes taken most significant first
unpack_q_bigendian(buffer) ==
    [top |-> IF buffer[1] >= 128 THEN -1 ELSE 0,
     d   |-> [k \in Digits |-> buffer[bytesize + 1 - k]]]

\* struct.unpack("q", buffer): 8 bytes, least significant first, signed
unpack_q(buffer) ==
    [top |-> IF buffer[bytesize] >= 128 THEN -1 ELSE 0,
     d   |-> [k \in Digits |-> buffer[k]]]

\* -x for x < 0 with x >= -2^64: the magnitude that "%x" prints after "-"
Magnitude(x) ==
    Plus([top |-> -1 - x.top, d |-> [k \in Digits |-> 255 - x.d[k]]],
         [top |-> 0, d |-> [k \in Digits |-> IF k = 1 THEN 1 ELSE 0]])

\* the 17 hex digits of x >= 0 (x < 2^68), most significant first, as numbers
Nibbles(x) ==
    [j \in 1..(2 * bytesize + 1) |->
        IF j = 1 THEN x.top
        ELSE LET k == bytesize - ((j - 2) \div 2)
             IN  IF j % 2 = 0 THEN x.d[k] \div 16 ELSE x.d[k] % 16]

RECURSIVE HexFrom(_, _)
\* the digits nib[j..] as text
HexFrom(nib, j) ==
    IF j > Len(nib) THEN "" ELSE HexDigits[nib[j] + 1] \o HexFrom(nib, j + 1)

RECURSIVE FirstKept(_, _, _)
\* the first digit "%0<width>x" prints: leading zeros are dropped down to width
FirstKept(nib, j, width) ==
    IF Len(nib) - j + 1 <= width \/ nib[j] # 0 THEN j
    ELSE FirstKept(nib, j + 1, width)

\* "%016x" % x (the sign counts in the width of 16)
Format016x(x) ==
    IF x.top >= 0
    THEN LET nib == Nibbles(x) IN HexFrom(nib, FirstKept(nib, 1, 2 * bytesize))
    ELSE LET nib == Nibbles(Magnitude(x))
         IN  "-" \o HexFrom(nib, FirstKept(nib, 1, 2 * bytesize - 1))

(* ------------------------- the subtitle codec ------------------------- *)
(* srt.parse, which parse_srt calls, after section 4.2 of the specification. *)
(* A text is a sequence of characters; a line ends at "\n".                  *)

DecDigits == <<"0", "1", "2", "3", "4", "5", "6", "7", "8", "9">>

IsDigit(c) == \E v \in 1..Len(DecDigits) : DecDigits[v] = c

DigitValue(c) == (CHOOSE v \in 1..Len(DecDigits) : DecDigits[v] = c) - 1

IsSpace(c) == c \in {" ", "\t", "\r"}

RECURSIVE NumberOf(_)
\* the number a sequence of digits writes
NumberOf(cs) ==
    IF cs = <<>> THEN 0
    ELSE 10 * NumberOf(SubSeq(cs, 1, Len(cs) - 1)) + DigitValue(cs[Len(cs)])

AllDigits(cs) == cs # <<>> /\ \A k \in 1..Len(cs) : IsDigit(cs[k])

\* the positions of the line terminators of a text
Newlines(text) == {k \in 1..Len(text) : text[k] = "\n"}

\* the position of the n-th line terminator; 0 for n = 0, and the position
\* after the last character when the text has fewer
NewlineAt(text, n) ==
    LET nl == Newlines(text)
    IN  IF n = 0 THEN 0
        ELSE IF n > Cardinality(nl) THEN Len(text) + 1
        ELSE CHOOSE k \in nl : Cardinality({m \in nl : m < k}) = n - 1

\* mutant: characters after the last terminator dropped
SplitLines_terminated(text) ==
    LET nl    == Newlines(text)
        count == Cardinality(nl)
    IN  [n \in 1..count |->
            SubSeq(text, NewlineAt(text, n - 1) + 1, NewlineAt(text, n) - 1)]

\* the lines of a text; characters after the last terminator make a last line
SplitLines(text) ==
    LET nl    == Newlines(text)
        count == IF text # <<>> /\ text[Len(text)] # "\n"
                 THEN Cardinality(nl) + 1 ELSE Cardinality(nl)
    IN  [n \in 1..count |->
            SubSeq(text, NewlineAt(text, n - 1) + 1, NewlineAt(text, n) - 1)]

\* a byte-order mark at the head of the text is dropped
DropBOM(text) == IF text # <<>> /\ text[1] = "BOM" THEN Tail(text) ELSE text

\* a carriage return at the end of a line belongs to the line terminator
DropCR(line) ==
    IF line # <<>> /\ line[Len(line)] = "\r" THEN SubSeq(line, 1, Len(line) - 1)
    ELSE line

LinesOf(text) ==
    LET raw == SplitLines(DropBOM(text))
    IN  [k \in 1..Len(raw) |-> DropCR(raw[k])]

Blank(line) == \A k \in 1..Len(line) : IsSpace(line[k])

RECURSIVE Trim(_)
Trim(line) ==
    IF line = <<>> THEN line
    ELSE IF IsSpace(line[1]) THEN Trim(Tail(line))
    ELSE IF IsSpace(line[Len(line)]) THEN Trim(SubSeq(line, 1, Len(line) - 1))
    ELSE line

\* mutant: minutes and seconds of 60 or more refused
IsTimestamp_ranged(cs) ==
    LET n == Len(cs)
    IN  /\ n >= 12
        /\ AllDigits(SubSeq(cs, 1, n - 10))
        /\ cs[n - 9] = ":" /\ AllDigits(SubSeq(cs, n - 8, n - 7))
        /\ cs[n - 6] = ":" /\ AllDigits(SubSeq(cs, n - 5, n - 4))
        /\ cs[n - 3] = "," /\ AllDigits(SubSeq(cs, n - 2, n))
        /\ NumberOf(SubSeq(cs, n - 8, n - 7)) < 60
        /\ NumberOf(SubSeq(cs, n - 5, n - 4)) < 60

\* HH:MM:SS,mmm with two or more digits of hours
IsTimestamp(cs) ==
    LET n == Len(cs)
    IN  /\ n >= 12
        /\ AllDigits(SubSeq(cs, 1, n - 10))
        /\ cs[n - 9] = ":" /\ AllDigits(SubSeq(cs, n - 8, n - 7))
        /\ cs[n - 6] = ":" /\ AllDigits(SubSeq(cs, n - 5, n - 4))
        /\ cs[n - 3] = "," /\ AllDigits(SubSeq(cs, n - 2, n))

\* mutant: the milliseconds dropped
Milliseconds_nomillis(cs) ==
    LET n == Len(cs)
        H == NumberOf(SubSeq(cs, 1, n - 10))
        M == NumberOf(SubSeq(cs, n - 8, n - 7))
        S == NumberOf(SubSeq(cs, n - 5, n - 4))
    IN  ((H * 60 + M) * 60 + S) * 1000

\* ((H*60+M)*60+S)*1000+mmm
Milliseconds(cs) ==
    LET n == Len(cs)
        H == NumberOf(SubSeq(cs, 1, n - 10))
        M == NumberOf(SubSeq(cs, n - 8, n - 7))
        S == NumberOf(SubSeq(cs, n - 5, n - 4))
    IN  ((H * 60 + M) * 60 + S) * 1000 + NumberOf(SubSeq(cs, n - 2, n))

Arrow == <<" ", "-", "-", ">", " ">>

\* where " --> " starts in the line, 0 when it is not there
ArrowAt(line) ==
    LET at == {k \in 1..Len(line) : /\ k + Len(Arrow) - 1 <= Len(line)
                                    /\ SubSeq(line, k, k + Len(Arrow) - 1) = Arrow}
    IN  IF at = {} THEN 0 ELSE CHOOSE k \in at : \A m \in at : k <= m

IsTimeLine(line) ==
    LET k == ArrowAt(line)
    IN  /\ k > 0
        /\ IsTimestamp(SubSeq(line, 1, k - 1))
        /\ IsTimestamp(SubSeq(line, k + Len(Arrow), Len(line)))

RECURSIVE TextEnd(_, _)
\* the first line at or after j that is blank, or the line after the last
TextEnd(lines, j) ==
    IF j > Len(lines) \/ Blank(lines[j]) THEN j ELSE TextEnd(lines, j + 1)

\* mutant: lines counted from 0
FormatError_zerobased(kind, line, cues) ==
    [error |-> kind, line |-> line - 1, cues |-> cues]

FormatError(kind, line, cues) == [error |-> kind, line |-> line, cues |-> cues]

RECURSIVE ParseFrom(_, _, _)
\* the cues of lines[i..] after the cues in acc, up to the first malformed cue
ParseFrom(lines, i, acc) ==
    IF i > Len(lines) THEN FormatError("none", 0, acc)
    ELSE IF Blank(lines[i]) THEN ParseFrom(lines, i + 1, acc)
    ELSE IF ~AllDigits(Trim(lines[i])) THEN FormatError("MissingIndex", i, acc)
    ELSE IF i + 1 > Len(lines) THEN FormatError("UnexpectedEof", i + 1, acc)
    ELSE IF ~IsTimeLine(lines[i + 1]) THEN FormatError("BadTimeRange", i + 1, acc)
    ELSE LET k   == ArrowAt(lines[i + 1])
             j   == TextEnd(lines, i + 2)
             cue == [index |-> NumberOf(Trim(lines[i])),
                     start |-> Milliseconds(SubSeq(lines[i + 1], 1, k - 1)),
                     end   |-> Milliseconds(SubSeq(lines[i + 1], k + Len(Arrow),
                                                   Len(lines[i + 1]))),
                     text  |-> SubSeq(lines, i + 2, j - 1)]
         IN  IF j = i + 2 THEN FormatError("UnexpectedEof", j, acc)
             ELSE ParseFrom(lines, j, Append(acc, cue))

\* parse(text), drained: the cues yielded and the error that ended them, if any
parse(text) == ParseFrom(LinesOf(text), 1, <<>>)

\* The texts parse_srt is called with, by name.
TextNames == {"example", "badtime"}

Texts(name) ==
  CASE name = "example" ->
    <<"1", "\n", "0", "0", ":", "0", "0", ":", "1", "0", ",", "5", "0",
      "0", " ", "-", "-", ">", " ", "0", "0", ":", "0", "0", ":", "1", "4",
      ",", "0", "0", "0", "\n", "S", "u", "b", "t", "i", "t", "l", "e",
      " ", "L", "i", "n", "e", " ", "1", "\n", "\n", "2", "\n", "0", "0",
      ":", "0", "0", ":", "1", "5", ",", "0", "0", "0", " ", "-", "-", ">",
      " ", "0", "0", ":", "0", "0", ":", "1", "8", ",", "5", "0", "0",
      "\n", "S", "u", "b", "t", "i", "t", "l", "e", " ", "L", "i", "n",
      "e", " ", "2", "\n">>
    [] name = "badtime" ->
    <<"1", "\n", "b", "a", "d", " ", "l", "i", "n", "e", "\n", "T", "e",
      "x", "t", "\n", "\n">>

(* serialize, after section 4.2 of the specification *)

RECURSIVE Decimal(_, _)
\* n in decimal, padded with zeros to at least width digits
Decimal(n, width) ==
    IF n < 10 /\ width <= 1 THEN <<DecDigits[n + 1]>>
    ELSE Append(Decimal(n \div 10, width - 1), DecDigits[(n % 10) + 1])

\* HH:MM:SS,mmm: hours padded to two digits or more, minutes and seconds to
\* two, milliseconds to three
FormatTimestamp(ms) ==
    Decimal(ms \div 3600000, 2) \o <<":">> \o Decimal((ms \div 60000) % 60, 2)
      \o <<":">> \o Decimal((ms \div 1000) % 60, 2) \o <<",">>
      \o Decimal(ms % 1000, 3)

RECURSIVE JoinLines(_)
\* the lines, each with its terminator
JoinLines(lines) ==
    IF lines = <<>> THEN <<>>
    ELSE lines[1] \o <<"\n">> \o JoinLines(Tail(lines))

\* mutant: the index of the cue written as it is
Block_keepindex(cue, k) ==
    JoinLines(<<Decimal(cue.index, 1),
                FormatTimestamp(cue.start) \o Arrow \o FormatTimestamp(cue.end)>>
              \o cue.text)

\* the k-th cue written out: its number k, its time line, its text lines
Block(cue, k) ==
    JoinLines(<<Decimal(k, 1),
                FormatTimestamp(cue.start) \o Arrow \o FormatTimestamp(cue.end)>>
              \o cue.text)

RECURSIVE SerializeFrom(_, _)
\* the cues S[k..], one blank line between two cues and none after the last
SerializeFrom(S, k) ==
    IF k > Len(S) THEN <<>>
    ELSE IF k = Len(S) THEN Block(S[k], k)
    ELSE Block(S[k], k) \o <<"\n">> \o SerializeFrom(S, k + 1)

serialize(S) == SerializeFrom(S, 1)

(* the texts given to srt.parse and the cues given to serialize *)

\* how many cues a sequence given to serialize has at most
MaxCues == 2

\* where the second cue of the example text starts
SecondCueAt == 50

Documents == TextNames \cup {"noeol", "blankend", "goodbadgood"}

\* the example text without its last line terminator, with a blank line after
\* its last cue, and with the malformed cue between its two cues
Content(name) ==
    LET example == Texts("example")
    IN  CASE name \in TextNames -> Texts(name)
          [] name = "noeol" -> SubSeq(example, 1, Len(example) - 1)
          [] name = "blankend" -> example \o <<"\n">>
          [] name = "goodbadgood" ->
               SubSeq(example, 1, SecondCueAt - 1) \o Texts("badtime")
                 \o SubSeq(example, SecondCueAt, Len(example))

\* the fields of a timestamp as they are written, in range and out of range
StampFields ==
    [H : {0, 1, 100}, M : {0, 59, 75}, S : {0, 61}, mmm : {0, 999}]

Stamp(f) ==
    Decimal(f.H, 2) \o <<":">> \o Decimal(f.M, 2) \o <<":">> \o Decimal(f.S, 2)
      \o <<",">> \o Decimal(f.mmm, 3)

\* a text of one cue that starts at the timestamp written with the fields f
TimedText(f) ==
    JoinLines(<<<<"1">>, Stamp(f) \o Arrow \o Stamp([f EXCEPT !.H = 99]),
                <<"T", "e", "x", "t">>>>)

Contents ==
    {Content(name) : name \in Documents} \cup {TimedText(f) : f \in StampFields}

\* the cues serialize is called with: any index, start and end in any order,
\* hours of three digits, one line of text or two
Cues ==
    {[index |-> i, start |-> b, end |-> e,
      text  |-> IF i = 1 THEN <<<<"H", "i">>>>
                ELSE <<<<"H", "i">>, <<"-", " ", "2">>>>] :
        i \in {1, 7}, b \in {10500, 360015000}, e \in {0, 14000}}

CueSequences == UNION {[1..n -> Cues] : n \in 1..MaxCues}

(* ------------------------------ the state ----------------------------- *)

VARIABLES
    fsExists,   \* the path names a file
    fsSize,     \* the size of that file
    fsPat,      \* its content
    pc,         \* the caller's position: "idle", or a line of get_hash
    size,       \* get_hash: size
    hash,       \* get_hash: hash
    iter,       \* get_hash: iterations of the current for loop done
    pos,        \* get_hash: the read position of file_obj
    handles,    \* open file objects
    outcome,    \* how the current or last call ended
    remembered, \* the outcome of an earlier call that an observer keeps
    running,    \* the thread that has the processor
    parked,     \* the frame, file and outcome of the thread that waits
    document,   \* the text srt.parse was called with
    source,     \* the cues that text was serialized from, if it was
    gen,        \* the sequence parse returned: how far it has been consumed
    consumed,   \* what the consumer of that sequence has got from it
    token,      \* OpenSubtitles.token
    user_downloads_remaining,   \* OpenSubtitles.user_downloads_remaining
    request,    \* the HTTP request the client waits on
    reply,      \* what came back for it
    result,     \* how the last call of the client ended
    local_files,    \* the files on disk: path -> content
    constructed,    \* OpenSubtitles.api_key and user_agent, as __init__ set them
    cli         \* the ost command that runs: its arguments, config and position

threadVars == <<running, parked>>

codecVars == <<document, source, gen, consumed>>

clientVars ==
    <<token, user_downloads_remaining, request, reply, result, local_files,
      constructed, cli>>

\* what the file fingerprinting code never touches
others == <<threadVars, codecVars, clientVars>>

vars == <<fsExists, fsSize, fsPat, pc, size, hash, iter, pos, handles, outcome,
          remembered, threadVars, codecVars, clientVars>>

fsVars == <<fsExists, fsSize, fsPat>>

Zero == FromSize(0)

\* An outcome: the call (op, input), how it ended (kind), and the exception
\* (type, args) or the value (a string in value, a list of cues in cues).
NoOutcome ==
    [kind |-> "none", op |-> "none", input |-> "", type |-> "none",
     args |-> <<>>, value |-> "", cues |-> <<>>]

Raise(op, type, args) ==
    [kind |-> "raise", op |-> op, input |-> "path", type |-> type,
     args |-> args, value |-> "", cues |-> <<>>]

Return(op, type, value) ==
    [kind |-> "return", op |-> op, input |-> "path", type |-> type,
     args |-> <<>>, value |-> value, cues |-> <<>>]

\* no second thread: nothing waits for the processor
NoThread ==
    [fsExists |-> FALSE, fsSize |-> 0, fsPat |-> "zero", pc |-> "idle",
     size |-> 0, hash |-> Zero, iter |-> 0, pos |-> 0, outcome |-> NoOutcome]

OneThread == running = 1 /\ parked = NoThread

\* a dict without keys
NoJson == [k \in {} |-> ""]

\* no sequence of cues is being consumed
NoGenerator == [state |-> "none", yielded |-> 0]

NoParse ==
    /\ document = <<>>
    /\ source = <<>>
    /\ gen = NoGenerator
    /\ consumed = <<>>

\* opensubtitles.py:52  self.token = None
None == "None"

\* an attribute the object does not have (yet)
NoAttribute == <<>>

NoRequest == [cmd |-> "", method |-> "", headers |-> NoJson, body |-> NoJson]

NoReply == [kind |-> "none", text |-> "", json |-> NoJson]

NoResult ==
    [kind |-> "none", op |-> "none", input |-> NoJson, type |-> "none",
     args |-> <<>>, json |-> NoJson, path |-> <<>>]

NoCli == [pc |-> "none", cfg |-> NoJson, args |-> NoJson]

\* lines 52-54 of __init__
Construct(key, agent) ==
    /\ token = None
    /\ constructed = [api_key |-> key, user_agent |-> agent]

\* opensubtitles.py:44-55  __init__ sets token, and not user_downloads_remaining
FreshClient ==
    /\ Construct("api-key", "MyAp v1.0.0")
    /\ cli = NoCli
    /\ user_downloads_remaining = NoAttribute
    /\ request = NoRequest
    /\ reply = NoReply
    /\ result = NoResult
    /\ local_files = [name \in {} |-> <<>>]

Init ==
    /\ \E f \in Files : fsSize = f.size /\ fsPat = f.pat
    /\ fsExists \in BOOLEAN
    /\ pc = "idle"
    /\ size = 0
    /\ hash = Zero
    /\ iter = 0
    /\ pos = 0
    /\ handles = 0
    /\ outcome = NoOutcome
    /\ remembered = NoOutcome
    /\ OneThread
    /\ NoParse
    /\ FreshClient

\* the two files of the runs that compare the results of repeated calls
InitCalls ==
    /\ Init
    /\ fsExists
    /\ [size |-> fsSize, pat |-> fsPat] \in
          {[size |-> 131071, pat |-> "ramp"], [size |-> 131072, pat |-> "high"]}

(* ------------------------------ get_hash ------------------------------ *)

\* mutant: the message of the size check raised for a missing file
FileNotExists_sizetext ==
    Raise("get_hash", "OpenSubtitlesFileException", <<"SizeError">>)

\* line 68: raise OpenSubtitlesFileException(f"File not exists: {self.path}")
FileNotExists ==
    Raise("get_hash", "OpenSubtitlesFileException", <<"File not exists: ", "path">>)

\* line 74: raise OpenSubtitlesFileException("SizeError")
SizeError == Raise("get_hash", "OpenSubtitlesFileException", <<"SizeError">>)

\* what stat() and open() raise for a path that names no file
FileNotFoundError(op) == Raise(op, "FileNotFoundError", <<"No such file or directory">>)

\* what read() and seek() raise when the device fails
IOFailed(op) == Raise(op, "OSError", <<"Input/output error">>)

\* mutant: a short read ends the loop and the sum so far is returned
StructError_swallowed == Return("get_hash", "str", Format016x(hash))

\* what struct.unpack raises for a buffer that is not 8 bytes long
StructError == Raise("get_hash", "struct.error", <<"unpack requires a buffer of 8 bytes">>)

\* the frame of get_hash is gone once it returns or raises
Leave(o) ==
    /\ pc' = "idle"
    /\ size' = 0
    /\ hash' = Zero
    /\ iter' = 0
    /\ pos' = 0
    /\ outcome' = o

\* mutant: file_obj opened without with and never closed
WithExit_leak(h) == h

\* the with statement of line 76 closes file_obj however the block is left
WithExit(h) == h - 1

\* file_obj.read(bytesize): the bytes from pos up to the end of the file
ReadLen == IF fsSize - pos >= bytesize THEN bytesize
           ELSE IF fsSize - pos > 0 THEN fsSize - pos ELSE 0

ReadBuffer == [k \in 1..ReadLen |-> Byte(fsPat, pos + k - 1)]

\* struct.unpack needs exactly calcsize("q") bytes
Unpackable(n) == n = bytesize

\* hash += l_value ; hash = hash & 0xFFFFFFFFFFFFFFFF
AddChunk(h, buffer) == And64(Plus(h, unpack_q(buffer)))

\* mutant: a file of exactly two windows refused
TooSmallFor_inclusive(n) == n <= WindowBytes * 2

\* mutant: one window taken for enough
TooSmallFor_onewindow(n) == n < WindowBytes

\* if int(size) < 65536 * 2
TooSmallFor(n) == n < WindowBytes * 2

\* mutant: no seek, the second loop reads on where the first one stopped
SeekTarget_none(n) == WindowBytes

\* max(0, int(size) - 65536)
SeekTarget(n) == IF n - WindowBytes > 0 THEN n - WindowBytes ELSE 0

\* mutant: the accumulator started at 0
InitialHash_zero(n) == FromSize(0)

\* hash = size
InitialHash(n) == FromSize(n)

get_hash_call ==
    /\ pc = "idle"
    /\ pc' = "L67"
    /\ outcome' = NoOutcome
    /\ UNCHANGED <<fsVars, size, hash, iter, pos, handles, remembered>>
    /\ UNCHANGED others

\* lines 67-68: if not self.exists(): raise
get_hash_exists ==
    /\ pc = "L67"
    /\ IF fsExists
       THEN pc' = "L69" /\ UNCHANGED <<size, hash, iter, pos, outcome>>
       ELSE Leave(FileNotExists)
    /\ UNCHANGED <<fsVars, handles, remembered>>
    /\ UNCHANGED others

\* line 69: size = self.path.stat().st_size
get_hash_stat ==
    /\ pc = "L69"
    /\ IF fsExists
       THEN pc' = "L73" /\ size' = fsSize /\ UNCHANGED <<hash, iter, pos, outcome>>
       ELSE Leave(FileNotFoundError("get_hash"))
    /\ UNCHANGED <<fsVars, handles, remembered>>
    /\ UNCHANGED others

\* lines 73-74: if int(size) < 65536 * 2: raise
get_hash_sizecheck ==
    /\ pc = "L73"
    /\ IF TooSmallFor(size)
       THEN Leave(SizeError)
       ELSE pc' = "L76" /\ UNCHANGED <<size, hash, iter, pos, outcome>>
    /\ UNCHANGED <<fsVars, handles, remembered>>
    /\ UNCHANGED others

\* lines 76-77: with open(self.path, "rb") as file_obj: hash = size
get_hash_open ==
    /\ pc = "L76"
    /\ IF fsExists
       THEN /\ pc' = "L78"
            /\ handles' = handles + 1
            /\ hash' = InitialHash(size)
            /\ pos' = 0
            /\ iter' = 0
            /\ UNCHANGED <<size, outcome>>
       ELSE /\ Leave(FileNotFoundError("get_hash"))
            /\ UNCHANGED handles
    /\ UNCHANGED <<fsVars, remembered>>
    /\ UNCHANGED others

\* one iteration of a for loop (lines 79-82 and 86-89): read, unpack, add, mask
ReadChunk(loop, after) ==
    /\ pc = loop
    /\ iter < WindowChunks
    /\ \E ioerror \in BOOLEAN :
         IF ioerror
         THEN /\ Leave(IOFailed("get_hash"))
              /\ handles' = WithExit(handles)
         ELSE IF ~Unpackable(ReadLen)
         THEN /\ Leave(StructError)
              /\ handles' = WithExit(handles)
         ELSE /\ hash' = AddChunk(hash, ReadBuffer)
              /\ pos' = pos + ReadLen
              /\ iter' = iter + 1
              /\ pc' = IF iter + 1 = WindowChunks THEN after ELSE loop
              /\ UNCHANGED <<size, handles, outcome>>
    /\ UNCHANGED <<fsVars, remembered>>
    /\ UNCHANGED others

\* lines 78-82
get_hash_read1 == ReadChunk("L78", "L84")

\* line 84: file_obj.seek(max(0, int(size) - 65536), 0)
get_hash_seek ==
    /\ pc = "L84"
    /\ \E ioerror \in BOOLEAN :
         IF ioerror
         THEN /\ Leave(IOFailed("get_hash"))
              /\ handles' = WithExit(handles)
         ELSE /\ pos' = SeekTarget(size)
              /\ iter' = 0
              /\ pc' = "L85"
              /\ UNCHANGED <<size, hash, handles, outcome>>
    /\ UNCHANGED <<fsVars, remembered>>
    /\ UNCHANGED others

\* lines 85-89
get_hash_read2 == ReadChunk("L85", "L90")

\* the with block ends and closes file_obj; line 91: return str("%016x" % hash)
get_hash_return ==
    /\ pc = "L90"
    /\ handles' = WithExit(handles)
    /\ Leave(Return("get_hash", "str", Format016x(hash)))
    /\ UNCHANGED <<fsVars, remembered>>
    /\ UNCHANGED others

get_hash ==
    \/ get_hash_call
    \/ get_hash_exists
    \/ get_hash_stat
    \/ get_hash_sizecheck
    \/ get_hash_open
    \/ get_hash_read1
    \/ get_hash_seek
    \/ get_hash_read2
    \/ get_hash_return

(* ------------------------------- get_md5 ------------------------------ *)

\* mutant: the size check of get_hash copied into get_md5
get_md5_sizechecked ==
    /\ pc = "idle"
    /\ \E ioerror \in BOOLEAN :
         outcome' = IF ~fsExists THEN FileNotFoundError("get_md5")
                    ELSE IF TooSmallFor(fsSize)
                         THEN Raise("get_md5", "OpenSubtitlesFileException", <<"SizeError">>)
                    ELSE IF ioerror THEN IOFailed("get_md5")
                    ELSE Return("get_md5", "str", md5_hexdigest(fsPat, fsSize))
    /\ UNCHANGED <<fsVars, pc, size, hash, iter, pos, handles, remembered>>
    /\ UNCHANGED others

\* lines 93-95: hashlib.md5(self.path.read_bytes()).hexdigest(); read_bytes
\* opens the file, reads all of it and closes it
get_md5 ==
    /\ pc = "idle"
    /\ \E ioerror \in BOOLEAN :
         outcome' = IF ~fsExists THEN FileNotFoundError("get_md5")
                    ELSE IF ioerror THEN IOFailed("get_md5")
                    ELSE Return("get_md5", "str", md5_hexdigest(fsPat, fsSize))
    /\ UNCHANGED <<fsVars, pc, size, hash, iter, pos, handles, remembered>>
    /\ UNCHANGED others

(* ------------------------------ parse_srt ----------------------------- *)

\* mutant: the cues appended to the list the last call returned
parse_srt_accumulating ==
    /\ pc = "idle"
    /\ \E content \in TextNames :
         LET parsed_content == parse(Texts(content))
         IN  outcome' =
               IF parsed_content.error = "none"
               THEN [kind |-> "return", op |-> "parse_srt", input |-> content,
                     type |-> "list", args |-> <<>>, value |-> "",
                     cues |-> outcome.cues \o parsed_content.cues]
               ELSE [kind |-> "raise", op |-> "parse_srt", input |-> content,
                     type |-> "FormatError",
                     args |-> <<parsed_content.error, ToString(parsed_content.line)>>,
                     value |-> "", cues |-> <<>>]
    /\ UNCHANGED <<fsVars, pc, size, hash, iter, pos, handles, remembered>>
    /\ UNCHANGED others

\* opensubtitles.py 308-309: parsed_content = parse(content);
\* return list(parsed_content).  list() drains the sequence, so the error of a
\* malformed cue is raised here and the cues before it are dropped.
parse_srt ==
    /\ pc = "idle"
    /\ \E content \in TextNames :
         LET parsed_content == parse(Texts(content))
         IN  outcome' =
               IF parsed_content.error = "none"
               THEN [kind |-> "return", op |-> "parse_srt", input |-> content,
                     type |-> "list", args |-> <<>>, value |-> "",
                     cues |-> parsed_content.cues]
               ELSE [kind |-> "raise", op |-> "parse_srt", input |-> content,
                     type |-> "FormatError",
                     args |-> <<parsed_content.error, ToString(parsed_content.line)>>,
                     value |-> "", cues |-> <<>>]
    /\ UNCHANGED <<fsVars, pc, size, hash, iter, pos, handles, remembered>>
    /\ UNCHANGED others

(* ---------------------------- other processes ------------------------- *)

\* another process removes the file (an open file object keeps its data)
Unlink ==
    /\ fsExists
    /\ fsExists' = FALSE
    /\ UNCHANGED <<fsSize, fsPat, pc, size, hash, iter, pos, handles, outcome,
                   remembered>>
    /\ UNCHANGED others

\* another process truncates the file; what an observer kept about the file
\* as it was is void
Truncate ==
    /\ fsExists
    /\ \E t \in TruncSizes : t < fsSize /\ fsSize' = t
    /\ remembered' = IF remembered.input = "path" THEN NoOutcome ELSE remembered
    /\ UNCHANGED <<fsExists, fsPat, pc, size, hash, iter, pos, handles, outcome>>
    /\ UNCHANGED others

\* an observer keeps what a call has just returned (for parse_srt also what it
\* raised), to compare it with the results of later calls with the same input
Observe ==
    /\ pc = "idle"
    /\ \/ outcome.op = "get_hash" /\ outcome.kind = "return"
       \/ outcome.op = "parse_srt"
    /\ remembered = NoOutcome
    /\ remembered' = outcome
    /\ UNCHANGED <<fsVars, pc, size, hash, iter, pos, handles, outcome>>
    /\ UNCHANGED others

Next == get_hash \/ get_md5 \/ Unlink \/ Truncate

Spec == Init /\ [][Next]_vars

NextCalls == get_hash \/ get_md5 \/ parse_srt \/ Unlink \/ Truncate \/ Observe

SpecCalls == InitCalls /\ [][NextCalls]_vars

(* ------------------------------- threads ------------------------------ *)
(* Two threads of one process, each in FileUtils(path).get_hash() on a file  *)
(* of its own.  The variables of get_hash above are those of the thread that *)
(* has the processor; parked holds those of the thread that waits.           *)

\* inside a for loop the processor changes hands only at an iteration count
\* that is a multiple of this (outside the loops, between any two lines)
PreemptEvery == 4096

\* the file of each thread
ThreadFiles ==
    <<[size |-> 196608, pat |-> "ramp"], [size |-> 131072, pat |-> "high"]>>

\* what a thread has of its own: its file, the locals of its call, its outcome
Frame ==
    [fsExists |-> fsExists, fsSize |-> fsSize, fsPat |-> fsPat, pc |-> pc,
     size |-> size, hash |-> hash, iter |-> iter, pos |-> pos,
     outcome |-> outcome]

\* mutant: the name bound at module level, one object for all threads
Local_global(saved, shared) == shared

\* size, hash, the loop counter and file_obj are locals of get_hash: a thread
\* that resumes finds in them what its own frame holds
Local(saved, shared) == saved

Preemptible == pc \in {"L78", "L85"} => iter % PreemptEvery = 0

\* the interpreter gives the processor to the other thread
Switch ==
    /\ Preemptible
    /\ running' = 3 - running
    /\ parked' = Frame
    /\ fsExists' = parked.fsExists
    /\ fsSize' = parked.fsSize
    /\ fsPat' = parked.fsPat
    /\ pc' = parked.pc
    /\ size' = Local(parked.size, size)
    /\ hash' = Local(parked.hash, hash)
    /\ iter' = Local(parked.iter, iter)
    /\ pos' = Local(parked.pos, pos)
    /\ outcome' = parked.outcome
    /\ UNCHANGED <<handles, remembered, codecVars, clientVars>>

InitThreads ==
    /\ fsExists = TRUE
    /\ fsSize = ThreadFiles[1].size
    /\ fsPat = ThreadFiles[1].pat
    /\ pc = "idle"
    /\ size = 0
    /\ hash = Zero
    /\ iter = 0
    /\ pos = 0
    /\ handles = 0
    /\ outcome = NoOutcome
    /\ remembered = NoOutcome
    /\ running = 1
    /\ parked = [NoThread EXCEPT !.fsExists = TRUE,
                                 !.fsSize = ThreadFiles[2].size,
                                 !.fsPat = ThreadFiles[2].pat]
    /\ NoParse
    /\ FreshClient

NextThreads == get_hash \/ Switch

SpecThreads == InitThreads /\ [][NextThreads]_vars

\* two files of one size that differ only between their two windows
TwinFiles ==
    <<[size |-> 2 * WindowBytes + ExtraBytes, pat |-> "gap"],
      [size |-> 2 * WindowBytes + ExtraBytes, pat |-> "zero"]>>

InitTwins ==
    /\ fsExists = TRUE
    /\ fsSize = TwinFiles[1].size
    /\ fsPat = TwinFiles[1].pat
    /\ pc = "idle"
    /\ size = 0
    /\ hash = Zero
    /\ iter = 0
    /\ pos = 0
    /\ handles = 0
    /\ outcome = NoOutcome
    /\ remembered = NoOutcome
    /\ running = 1
    /\ parked = [NoThread EXCEPT !.fsExists = TRUE,
                                 !.fsSize = TwinFiles[2].size,
                                 !.fsPat = TwinFiles[2].pat]
    /\ NoParse
    /\ FreshClient

SpecTwins == InitTwins /\ [][NextThreads]_vars

(* ------------------------- parse and serialize ------------------------ *)
(* srt.parse returns a sequence that reads the text as it is consumed:       *)
(* parse_srt (line 309) consumes all of it with list(), other callers take   *)
(* one cue at a time.                                                        *)

CodecOutcome(kind, op, type, args, cues) ==
    [kind |-> kind, op |-> op, input |-> "document", type |-> type,
     args |-> args, value |-> "", cues |-> cues]

hashVars ==
    <<fsExists, fsSize, fsPat, pc, size, hash, iter, pos, handles, remembered>>

\* serialize(S), called when there is no text at hand
serialize_call ==
    /\ document = <<>>
    /\ \E S \in CueSequences :
         /\ source' = S
         /\ document' = serialize(S)
    /\ gen' = NoGenerator
    /\ consumed' = <<>>
    /\ outcome' = CodecOutcome("return", "serialize", "str", <<>>, <<>>)
    /\ UNCHANGED <<hashVars, threadVars, clientVars>>

\* mutant: the text read through at the call
parse_call_eager ==
    /\ \E r \in {parse(document)} :
           IF r.error = "none"
           THEN /\ gen' = [state |-> "open", yielded |-> 0]
                /\ outcome' = CodecOutcome("return", "parse", "generator",
                                           <<>>, <<>>)
           ELSE /\ gen' = NoGenerator
                /\ outcome' = CodecOutcome("raise", "parse", "FormatError",
                                           <<r.error, ToString(r.line)>>, <<>>)
    /\ consumed' = <<>>
    /\ UNCHANGED <<document, source>>
    /\ UNCHANGED <<hashVars, threadVars, clientVars>>

\* parse(content) for the text at hand, received or made by serialize: a new
\* sequence is returned and nothing of the text is read yet
parse_call ==
    /\ gen' = [state |-> "open", yielded |-> 0]
    /\ consumed' = <<>>
    /\ outcome' = CodecOutcome("return", "parse", "generator", <<>>, <<>>)
    /\ UNCHANGED <<document, source>>
    /\ UNCHANGED <<hashVars, threadVars, clientVars>>

\* next(parsed_content): the consumer takes the next cue.  The sequence reads
\* one more cue of the text and yields it, or raises what is wrong with it, or
\* is at the end of the text; once it has raised or ended it stays ended.
next_cue ==
    /\ gen.state # "none"
    /\ \E r \in {parse(document)} :
       LET n == gen.yielded
       IN  IF gen.state = "open" /\ n < Len(r.cues)
           THEN /\ gen' = [gen EXCEPT !.yielded = n + 1]
                /\ consumed' = Append(consumed, r.cues[n + 1])
                /\ outcome' = CodecOutcome("return", "next", "Cue", <<>>,
                                           <<r.cues[n + 1]>>)
           ELSE IF gen.state = "open" /\ r.error # "none"
           THEN /\ gen' = [gen EXCEPT !.state = "failed"]
                /\ consumed' = consumed
                /\ outcome' = CodecOutcome("raise", "next", "FormatError",
                                           <<r.error, ToString(r.line)>>, <<>>)
           ELSE /\ gen' = [gen EXCEPT !.state = IF gen.state = "open"
                                                THEN "exhausted" ELSE gen.state]
                /\ consumed' = consumed
                /\ outcome' = CodecOutcome("raise", "next", "StopIteration",
                                           <<>>, <<>>)
    /\ UNCHANGED <<document, source>>
    /\ UNCHANGED <<hashVars, threadVars, clientVars>>

\* the text at hand: one that was received, or none
InitCodec ==
    /\ fsExists = FALSE
    /\ fsSize = 0
    /\ fsPat = "zero"
    /\ pc = "idle"
    /\ size = 0
    /\ hash = Zero
    /\ iter = 0
    /\ pos = 0
    /\ handles = 0
    /\ outcome = NoOutcome
    /\ remembered = NoOutcome
    /\ OneThread
    /\ document \in Contents \cup {<<>>}
    /\ source = <<>>
    /\ gen = NoGenerator
    /\ consumed = <<>>
    /\ FreshClient

NextCodec == serialize_call \/ parse_call \/ next_cue \/ parse_srt

SpecCodec == InitCodec /\ [][NextCodec]_vars

(* ------------------------------ the client --------------------------- *)
(* OpenSubtitles (opensubtitles.py): login over send_api, and                *)
(* save_content_locally.  A JSON object is a record; a file name is the      *)
(* sequence of its stem and its suffixes, a path the directory and then the  *)
(* file name.                                                                *)

\* what the server answers to a login it accepts; the last has no "user"
LoginResponses ==
    {[user |-> [allowed_translations |-> 1, allowed_downloads |-> 20],
      token |-> "thegeneratedapitoken", status |-> 200],
     [user |-> [allowed_translations |-> 1, allowed_downloads |-> 0],
      token |-> "anothertoken", status |-> 200],
     [token |-> "tokenonly", status |-> 200]}

\* what can come back for a request: a body that parses, a status that
\* raise_for_status refuses, no response at all, a body that is no JSON
Replies ==
    {[kind |-> "ok", text |-> "", json |-> j] : j \in LoginResponses}
    \cup {[kind |-> "http_error", text |-> "401 Client Error: Unauthorized",
           json |-> NoJson],
          [kind |-> "transport_error", text |-> "Connection refused",
           json |-> NoJson],
          [kind |-> "bad_json", text |-> "Expecting value", json |-> NoJson]}

\* tests/test_opensubtitles.py:39  self.api.downloads_dir = "test_downloads"
downloads_dir == "test_downloads"

Credentials ==
    {[username |-> "mocked_username", password |-> "mocked_password"],
     [username |-> "mocked_invalid_username",
      password |-> "mocked_invalid_password"]}

\* mutant: the token never sent
Headers_anonymous ==
    [h \in {"Accept", "Content-Type", "API-Key", "User-Agent"} |->
        CASE h = "Accept" -> "application/json"
          [] h = "Content-Type" -> "application/json"
          [] h = "API-Key" -> constructed.api_key
          [] h = "User-Agent" -> constructed.user_agent]

\* lines 62-69: the headers, with the token once there is one
Headers ==
    [h \in {"Accept", "Content-Type", "API-Key", "User-Agent"}
            \cup (IF token # None /\ token # "" THEN {"authorization"} ELSE {}) |->
        CASE h = "Accept" -> "application/json"
          [] h = "Content-Type" -> "application/json"
          [] h = "API-Key" -> constructed.api_key
          [] h = "User-Agent" -> constructed.user_agent
          [] h = "authorization" -> token]

\* lines 71-76: DELETE when asked for, POST with a body, GET without
Method(body, method) ==
    IF method = "DELETE" THEN "DELETE"
    ELSE IF body # NoJson THEN "POST" ELSE "GET"

ClientRaise(op, type, args) ==
    [kind |-> "raise", op |-> op, input |-> NoJson, type |-> type,
     args |-> args, json |-> NoJson, path |-> <<>>]

ClientReturn(op, type, json, path) ==
    [kind |-> "return", op |-> op, input |-> NoJson, type |-> type,
     args |-> <<>>, json |-> json, path |-> path]

\* mutant: the exceptions caught and an empty response returned
send_api_swallowing(op, r, as_request_exception) ==
    IF r.kind = "ok" THEN ClientReturn(op, "dict", r.json, <<>>)
    ELSE ClientReturn(op, "dict", NoJson, <<>>)

\* lines 77-84 of send_api, for the reply r: raise_for_status, json(), and the
\* three except clauses.  What json() raises for a body that is no JSON is a
\* RequestException in some versions of requests and only a ValueError in
\* others, so either the second clause takes it or the third.
send_api(op, r, as_request_exception) ==
    CASE r.kind = "ok" -> ClientReturn(op, "dict", r.json, <<>>)
      [] r.kind = "http_error" ->
           ClientRaise(op, "OpenSubtitlesException",
                       <<"Failed with HTTP Error: ", r.text>>)
      [] r.kind = "transport_error" ->
           ClientRaise(op, "OpenSubtitlesException",
                       <<"Failed to send request: ", r.text>>)
      [] r.kind = "bad_json" ->
           ClientRaise(op, "OpenSubtitlesException",
                       <<IF as_request_exception THEN "Failed to send request: "
                         ELSE "Failed to parse login JSON response: ", r.text>>)

\* mutant: the count taken from the neighbouring key
AllowedDownloads_translations(login_response) ==
    login_response.user.allowed_translations

\* line 95: login_response["user"]["allowed_downloads"]
AllowedDownloads(login_response) == login_response.user.allowed_downloads

\* lines 92-93 and 62-74: login builds the body, send_api the headers, and the
\* request leaves
login_call ==
    /\ request = NoRequest
    /\ \E body \in Credentials :
         request' = [cmd |-> "login", method |-> Method(body, None),
                     headers |-> Headers, body |-> body]
    /\ reply' = NoReply
    /\ UNCHANGED <<token, user_downloads_remaining, result, local_files>>
    /\ UNCHANGED <<hashVars, outcome, threadVars, codecVars, constructed, cli>>

\* the link a download response names
DownloadLink == "https://www.opensubtitles.com/download/12345"

\* what can come back for the other requests: every failure of Replies, or
\* the body the server has for the command; for the link, which is fetched
\* without a look at the status, a body or no response
Responses(cmd) ==
    IF cmd = DownloadLink
    THEN {[kind |-> "ok", text |-> c, json |-> NoJson] :
             c \in {"1\n00:00:01,000", ""}}
         \cup {r \in Replies : r.kind = "transport_error"}
    ELSE {r \in Replies : r.kind # "ok"}
         \cup {[kind |-> "ok", text |-> "", json |-> j] : j \in
                 CASE cmd = "logout" ->
                        {[message |-> "token successfully destroyed",
                          status |-> 200]}
                   [] cmd = "infos/user" ->
                        {[data |-> [remaining_downloads |-> n]] : n \in {0, 19}}
                   [] cmd = "download" ->
                        {[link |-> DownloadLink, file_name |-> "12345.srt",
                          remaining |-> n] : n \in {0, 19}}
                   [] OTHER ->  \* "subtitles?..."
                        {[total_pages |-> 5, total_count |-> 100,
                          per_page |-> 20, page |-> 1,
                          data |-> <<"7061050", "7061050">>]}}

\* the network and the server
Respond ==
    /\ request # NoRequest
    /\ reply = NoReply
    /\ reply' \in IF request.cmd = "login" THEN Replies
                   ELSE Responses(request.cmd)
    /\ UNCHANGED <<token, user_downloads_remaining, request, result, local_files>>
    /\ UNCHANGED <<hashVars, outcome, threadVars, codecVars, constructed, cli>>

\* lines 77-84 and 93-96: send_api returns the response or raises, login
\* keeps the token, then the count, and returns the response; a key that is
\* not in the response raises KeyError at its line
login_return ==
    /\ request.cmd = "login"
    /\ reply # NoReply
    /\ \E as_request_exception \in BOOLEAN :
         LET login_response == send_api("login", reply, as_request_exception)
             json == login_response.json
         IN  IF login_response.kind = "raise"
             THEN /\ result' = login_response
                  /\ UNCHANGED <<token, user_downloads_remaining>>
             ELSE IF "token" \notin DOMAIN json
             THEN /\ result' = ClientRaise("login", "KeyError", <<"token">>)
                  /\ UNCHANGED <<token, user_downloads_remaining>>
             ELSE IF "user" \notin DOMAIN json
             THEN /\ token' = json.token
                  /\ result' = ClientRaise("login", "KeyError", <<"user">>)
                  /\ UNCHANGED user_downloads_remaining
             ELSE /\ token' = json.token
                  /\ user_downloads_remaining' = <<AllowedDownloads(json)>>
                  /\ result' = login_response
    /\ request' = NoRequest
    /\ reply' = NoReply
    /\ UNCHANGED local_files
    /\ UNCHANGED <<hashVars, outcome, threadVars, codecVars, constructed, cli>>

\* line 104: send_api("logout", method="DELETE")
logout_call ==
    /\ request = NoRequest
    /\ request' = [cmd |-> "logout", method |-> Method(NoJson, "DELETE"),
                   headers |-> Headers, body |-> NoJson]
    /\ reply' = NoReply
    /\ UNCHANGED <<token, user_downloads_remaining, result, local_files>>
    /\ UNCHANGED <<hashVars, outcome, threadVars, codecVars, constructed, cli>>

\* lines 104-105: the response is returned; self.token stays as it is
logout_return ==
    /\ request.cmd = "logout"
    /\ reply # NoReply
    /\ \E as_request_exception \in BOOLEAN :
         result' = send_api("logout", reply, as_request_exception)
    /\ request' = NoRequest
    /\ reply' = NoReply
    /\ UNCHANGED <<token, user_downloads_remaining, local_files>>
    /\ UNCHANGED <<hashVars, outcome, threadVars, codecVars, constructed, cli>>

\* line 113: send_api("infos/user")
user_info_call ==
    /\ request = NoRequest
    /\ request' = [cmd |-> "infos/user", method |-> Method(NoJson, None),
                   headers |-> Headers, body |-> NoJson]
    /\ reply' = NoReply
    /\ UNCHANGED <<token, user_downloads_remaining, result, local_files>>
    /\ UNCHANGED <<hashVars, outcome, threadVars, codecVars, constructed, cli>>

\* lines 113-115
user_info_return ==
    /\ request.cmd = "infos/user"
    /\ reply # NoReply
    /\ \E as_request_exception \in BOOLEAN :
         LET response == send_api("user_info", reply, as_request_exception)
         IN  /\ result' = response
             /\ IF response.kind = "raise"
                THEN UNCHANGED user_downloads_remaining
                ELSE user_downloads_remaining' =
                         <<response.json.data.remaining_downloads>>
    /\ request' = NoRequest
    /\ reply' = NoReply
    /\ UNCHANGED <<token, local_files>>
    /\ UNCHANGED <<hashVars, outcome, threadVars, codecVars, constructed, cli>>

\* the file ids download is called with: none, and one of a subtitle file
FileIds == {"", "12345"}

\* mutant: the request sent whatever the count is
QuotaLeft_any(remaining) == TRUE

\* line 261: if self.user_downloads_remaining <= 0, the other way round
QuotaLeft(remaining) == ~(remaining[1] <= 0)

\* lines 242-267 of download, up to the request: no file id, the count never
\* set (the attribute read at line 261 is not there), the count used up, or
\* the request leaves
download_begin(file_id) ==
    IF file_id = ""
    THEN /\ result' = [ClientReturn("download", "NoneType", NoJson, <<>>)
                         EXCEPT !.input = [file_id |-> file_id]]
         /\ UNCHANGED <<request, reply>>
    ELSE IF user_downloads_remaining = NoAttribute
    THEN /\ result' = [ClientRaise("download", "AttributeError",
                                   <<"user_downloads_remaining">>)
                         EXCEPT !.input = [file_id |-> file_id]]
         /\ UNCHANGED <<request, reply>>
    ELSE IF ~QuotaLeft(user_downloads_remaining)
    THEN /\ result' = [ClientReturn("download", "NoneType", NoJson, <<>>)
                         EXCEPT !.input = [file_id |-> file_id]]
         /\ UNCHANGED <<request, reply>>
    ELSE /\ request' = [cmd |-> "download",
                        method |-> Method([file_id |-> file_id], None),
                        headers |-> Headers, body |-> [file_id |-> file_id]]
         /\ reply' = NoReply
         /\ result' = NoResult

\* download(file_id), called on the client
download_call ==
    /\ request = NoRequest
    /\ cli.pc = "none"
    /\ \E file_id \in FileIds : download_begin(file_id)
    /\ UNCHANGED <<token, user_downloads_remaining, local_files>>
    /\ UNCHANGED <<hashVars, outcome, threadVars, codecVars, constructed, cli>>

\* lines 267-270: the response of the download request; download_client.get
\* asks for the link, with no headers
download_return ==
    /\ request.cmd = "download"
    /\ reply # NoReply
    /\ \E as_request_exception \in BOOLEAN :
         LET response == send_api("download", reply, as_request_exception)
         IN  IF response.kind = "raise"
             THEN /\ result' = response
                  /\ request' = NoRequest
                  /\ UNCHANGED user_downloads_remaining
             ELSE /\ user_downloads_remaining' = <<response.json.remaining>>
                  /\ request' = [cmd |-> response.json.link, method |-> "GET",
                                 headers |-> NoJson, body |-> NoJson]
                  /\ UNCHANGED result
    /\ reply' = NoReply
    /\ UNCHANGED <<token, local_files>>
    /\ UNCHANGED <<hashVars, outcome, threadVars, codecVars, constructed, cli>>

\* download_client.py:33-35 and line 270: the content of whatever came back
download_fetched ==
    /\ request.cmd = DownloadLink
    /\ reply # NoReply
    /\ result' = IF reply.kind = "ok"
                 THEN [ClientReturn("download", "bytes", NoJson, <<>>)
                         EXCEPT !.json = [content |-> reply.text]]
                 ELSE ClientRaise("download", "ConnectionError", <<reply.text>>)
    /\ request' = NoRequest
    /\ reply' = NoReply
    /\ UNCHANGED <<token, user_downloads_remaining, local_files>>
    /\ UNCHANGED <<hashVars, outcome, threadVars, codecVars, constructed, cli>>

\* opensubtitles/opensubtitles.py:19-31
language_codes ==
    {"en", "es", "fr", "de", "it", "zh", "ja", "ru", "ar", "hi", "he"}

\* lines 195-217: the parameters of search in the order of the add_param calls
SearchParams ==
    <<"ai_translated", "episode_number", "foreign_parts_only",
      "hearing_impaired", "id", "imdb_id", "languages", "machine_translated",
      "moviehash", "moviehash_match", "order_by", "order_direction", "page",
      "parent_feature_id", "parent_imdb_id", "parent_tmdb_id", "query",
      "season_number", "tmdb_id", "trusted_sources", "type", "user_id",
      "year">>

\* the keyword arguments search is called with; the other parameters keep
\* their default, None
SearchArgs ==
    {[name \in {SearchParams[i] : i \in 1..Len(SearchParams)} |->
         CASE name = "ai_translated" -> a
           [] name = "languages" -> l
           [] name = "query" -> q
           [] name = "year" -> y
           [] OTHER -> None] :
       a \in {None, "exclude"}, l \in {None, "en", "xx"},
       q \in {None, "example_query"}, y \in {None, "2023"}}

\* mutant: a parameter that was not given added as well
add_param_unchecked(query_params, name, value) ==
    Append(query_params, name \o "=" \o value)

\* lines 190-192
add_param(query_params, name, value) ==
    IF value # None THEN Append(query_params, name \o "=" \o value)
    ELSE query_params

RECURSIVE AddParams(_, _)
\* lines 187-217: query_params after the first n calls of add_param
AddParams(args, n) ==
    IF n = 0 THEN <<>>
    ELSE add_param(AddParams(args, n - 1), SearchParams[n], args[SearchParams[n]])

RECURSIVE Join(_)
\* line 222: "&".join(query_params)
Join(query_params) ==
    IF Len(query_params) = 0 THEN ""
    ELSE IF Len(query_params) = 1 THEN query_params[1]
    ELSE query_params[1] \o "&" \o Join(Tail(query_params))

\* lines 187-224: the two assertions, then the request
search_call ==
    /\ request = NoRequest
    /\ \E args \in SearchArgs :
         LET query_params == AddParams(args, Len(SearchParams))
             query_string == Join(query_params)
             input == [args |-> args, query_string |-> query_string]
         IN  IF args["languages"] # None /\ args["languages"] \notin language_codes
             THEN /\ result' = [ClientRaise("search", "AssertionError",
                                    <<"Invalid language code: ", args["languages"]>>)
                                  EXCEPT !.input = input]
                  /\ UNCHANGED <<request, reply>>
             ELSE IF query_params = <<>>
             THEN /\ result' = [ClientRaise("search", "AssertionError",
                                    <<"Missing subtitles search parameters">>)
                                  EXCEPT !.input = input]
                  /\ UNCHANGED <<request, reply>>
             ELSE /\ request' = [cmd |-> "subtitles?" \o query_string,
                                 method |-> Method(NoJson, None),
                                 headers |-> Headers, body |-> NoJson]
                  /\ reply' = NoReply
                  /\ result' = [NoResult EXCEPT !.input = input]
    /\ UNCHANGED <<token, user_downloads_remaining, local_files>>
    /\ UNCHANGED <<hashVars, outcome, threadVars, codecVars, constructed, cli>>

\* lines 224-225: SearchResponse(**search_response_data, query_string=...)
search_return ==
    /\ request.cmd \notin {"login", "logout", "infos/user", "download",
                            DownloadLink}
    /\ request # NoRequest
    /\ reply # NoReply
    /\ \E as_request_exception \in BOOLEAN :
         LET search_response_data == send_api("search", reply, as_request_exception)
         IN  result' =
               IF search_response_data.kind = "raise"
               THEN [search_response_data EXCEPT !.input = result.input]
               ELSE [search_response_data EXCEPT
                       !.type = "SearchResponse",
                       !.input = result.input,
                       !.path = <<result.input.query_string>>]
    /\ request' = NoRequest
    /\ reply' = NoReply
    /\ UNCHANGED <<token, user_downloads_remaining, local_files>>
    /\ UNCHANGED <<hashVars, outcome, threadVars, codecVars, constructed, cli>>

\* what is saved, and under which name: none, the name of the test with its
\* suffix, a subtitle id as download_and_save passes it
FileContents == {"This is some test content.", "1\n00:00:01,000"}

Filenames == {<<>>, <<"test_file", ".srt">>, <<"12345">>}

\* uuid.uuid4() as text
Uuids == {<<"6fa459ea-ee8a-3ca4-894e-db77e160355e">>}

\* line 280: f"{filename or uuid.uuid4()}.srt"
LocalFilename(filename, uuid) ==
    Append(IF filename # <<>> THEN filename ELSE uuid, ".srt")

\* line 281: Path(self.downloads_dir).joinpath(local_filename)
joinpath(dir, local_filename) == <<dir>> \o local_filename

\* Path.name
PathName(path) == Tail(path)

\* opensubtitles/files.py:17-27  write: path.write_bytes(content), the file made or replaced
write(files, path, content) ==
    [p \in DOMAIN files \cup {path} |->
        IF p = path THEN content ELSE files[p]]

\* lines 272-283; the directory may refuse the file
save_content_locally ==
    /\ request = NoRequest
    /\ \E content \in FileContents, filename \in Filenames, uuid \in Uuids,
          refused \in BOOLEAN :
         LET local_filename == LocalFilename(filename, uuid)
             srt_path == joinpath(downloads_dir, local_filename)
             input == [content |-> content, filename |-> filename]
         IN  IF refused
             THEN /\ result' = [ClientRaise("save_content_locally", "OSError",
                                            <<>>) EXCEPT !.input = input]
                  /\ UNCHANGED local_files
             ELSE /\ local_files' = write(local_files, srt_path, content)
                  /\ result' = [ClientReturn("save_content_locally", "Path",
                                             NoJson, srt_path)
                                  EXCEPT !.input = input]
    /\ UNCHANGED <<token, user_downloads_remaining, request, reply>>
    /\ UNCHANGED <<hashVars, outcome, threadVars, codecVars, constructed, cli>>

\* bytes objects and str objects: a bytes object holds byte values, a str
\* object code points ("1", "e" with acute accent; 195 169 is the latter in
\* UTF-8, 195 alone, 169 alone and 255 are not UTF-8)
ConvertContents ==
    {[type |-> "bytes", data |-> d] :
        d \in {<<>>, <<49>>, <<195, 169>>, <<49, 195, 169>>, <<195>>, <<169>>,
               <<255>>, <<195, 49>>}}
    \cup {[type |-> "str", data |-> d] :
            d \in {<<>>, <<49>>, <<233>>, <<49, 233>>}}

RECURSIVE utf8_decode(_)
\* bytes.decode("utf-8"): the code points, or <<-1>> where Python raises
\* UnicodeDecodeError
utf8_decode(b) ==
    IF b = <<>> THEN <<>>
    ELSE LET n == IF b[1] < 128 THEN 1
                  ELSE IF b[1] >= 194 /\ b[1] < 224 THEN 2
                  ELSE IF b[1] >= 224 /\ b[1] < 240 THEN 3
                  ELSE IF b[1] >= 240 /\ b[1] < 245 THEN 4 ELSE 0
             cont(i) == i <= Len(b) /\ b[i] >= 128 /\ b[i] < 192
             cp == CASE n = 1 -> b[1]
                     [] n = 2 -> (b[1] - 192) * 64 + (b[2] - 128)
                     [] n = 3 -> (b[1] - 224) * 4096 + (b[2] - 128) * 64
                                    + (b[3] - 128)
                     [] n = 4 -> (b[1] - 240) * 262144 + (b[2] - 128) * 4096
                                    + (b[3] - 128) * 64 + (b[4] - 128)
             ok == /\ n > 0
                   /\ \A i \in 2..n : cont(i)
                   /\ n = 3 => cp >= 2048 /\ (cp < 55296 \/ cp > 57343)
                   /\ n = 4 => cp >= 65536 /\ cp <= 1114111
         IN  IF ~ok THEN <<-1>>
             ELSE LET rest == utf8_decode(SubSeq(b, n + 1, Len(b)))
                  IN  IF rest = <<-1>> THEN <<-1>> ELSE <<cp>> \o rest

\* lines 321-323: bytes are decoded, anything else is handed back
bytes_to_str(content) ==
    IF content.type = "bytes"
    THEN IF utf8_decode(content.data) = <<-1>>
         THEN ClientRaise("bytes_to_str", "UnicodeDecodeError", <<>>)
         ELSE [ClientReturn("bytes_to_str", "str", NoJson, <<>>)
                 EXCEPT !.json = [type |-> "str",
                                  data |-> utf8_decode(content.data)]]
    ELSE [ClientReturn("bytes_to_str", content.type, NoJson, <<>>)
            EXCEPT !.json = content]

\* lines 335-337: a str is asked for its decode method, which str does not
\* have; anything else is handed back
str_to_bytes(content) ==
    IF content.type = "str"
    THEN ClientRaise("str_to_bytes", "AttributeError",
                     <<"'str' object has no attribute 'decode'">>)
    ELSE [ClientReturn("str_to_bytes", content.type, NoJson, <<>>)
            EXCEPT !.json = content]

\* either conversion, called with a bytes or a str object
convert ==
    /\ request = NoRequest
    /\ \E content \in ConvertContents :
       \E r \in {bytes_to_str(content), str_to_bytes(content)} :
          result' = [r EXCEPT !.input = [content |-> content]]
    /\ UNCHANGED <<token, user_downloads_remaining, request, reply, local_files>>
    /\ UNCHANGED <<hashVars, outcome, threadVars, codecVars, constructed, cli>>

\* opensubtitles.py:41-337  what class OpenSubtitles defines
Methods ==
    {"__init__", "send_api", "login", "logout", "user_info", "languages_info",
     "formats_info", "discover_latest", "discover_most_downloaded", "search",
     "download", "save_content_locally", "download_and_save", "parse_srt",
     "bytes_to_str", "str_to_bytes"}

\* api.download_and_parse(file_id=...): the attribute is looked up on the
\* object, which has no such method
download_and_parse ==
    /\ request = NoRequest
    /\ "download_and_parse" \notin Methods
    /\ \E file_id \in FileIds :
         result' = [ClientRaise("download_and_parse", "AttributeError",
                        <<"'OpenSubtitles' object has no attribute 'download_and_parse'">>)
                      EXCEPT !.input = [file_id |-> file_id]]
    /\ UNCHANGED <<token, user_downloads_remaining, request, reply, local_files>>
    /\ UNCHANGED <<hashVars, outcome, threadVars, codecVars, constructed, cli>>

InitClient ==
    /\ fsExists = FALSE
    /\ fsSize = 0
    /\ fsPat = "zero"
    /\ pc = "idle"
    /\ size = 0
    /\ hash = Zero
    /\ iter = 0
    /\ pos = 0
    /\ handles = 0
    /\ outcome = NoOutcome
    /\ remembered = NoOutcome
    /\ OneThread
    /\ NoParse
    /\ FreshClient

NextClient ==
    \/ login_call
    \/ Respond
    \/ login_return
    \/ save_content_locally
    \/ convert
    \/ logout_call
    \/ logout_return
    \/ user_info_call
    \/ user_info_return
    \/ download_call
    \/ download_return
    \/ download_fetched
    \/ download_and_parse

SpecClient == InitClient /\ [][NextClient]_vars

\* the client used for searching, before and after it has logged in
NextSearch ==
    \/ login_call
    \/ Respond
    \/ login_return
    \/ search_call
    \/ search_return

SpecSearch == InitClient /\ [][NextSearch]_vars

(* ------------------------------- the CLI ------------------------------ *)
(* ost download --file-id (ost_cli/main.py): the configuration is read, the   *)
(* client built and logged in, the output file opened, the subtitle           *)
(* downloaded and written.                                                    *)

\* main.py:25-28
API_APP == "opensubtitlescom_py v0.1.3"

\* main.py:27
API_KEY == "CFpwJe7burdfYLEoTzSNG88Z7Lc2ex3b"

\* config.py:10-18  what Config(path) holds: the defaults when there is no
\* file, and the entries of the file over them
Configs ==
    {[username |-> None, password |-> None, langauge |-> "en"],
     [username |-> None, password |-> None, langauge |-> "en",
      api_key |-> None],
     [username |-> None, password |-> None, langauge |-> "en",
      api_key |-> "configured-key"],
     [username |-> "mocked_username", password |-> "mocked_password",
      langauge |-> "en", api_key |-> "configured-key"]}

\* the arguments of the command: --file-id, with and without --output
CliArgs ==
    {[file_id |-> "12345", output |-> <<>>],
     [file_id |-> "12345", output |-> <<"out", ".srt">>]}

\* main.py:121-129, for a command that has a file id
get_srt_output_file(args) ==
    IF args.output # <<>> THEN args.output
    ELSE <<args.file_id, ".srt">>

\* what the output file holds when it is there before the command runs
OldContent == "previous subtitles"

\* main.py:31-36: the client is built and, with a username and a password
\* configured, logged in (opensubtitles.py 92-93)
_get_api ==
    /\ cli.pc = "start"
    /\ IF "api_key" \notin DOMAIN cli.cfg
       THEN /\ result' = ClientRaise("_get_api", "AttributeError", <<"api_key">>)
            /\ cli' = [cli EXCEPT !.pc = "failed"]
            /\ UNCHANGED <<token, constructed, request, reply>>
       ELSE /\ token' = None
            /\ constructed' =
                  [api_key |-> API_APP,
                   user_agent |-> IF cli.cfg.api_key \notin {None, ""}
                                  THEN cli.cfg.api_key ELSE API_KEY]
            /\ IF cli.cfg.username \notin {None, ""}
                  /\ cli.cfg.password \notin {None, ""}
               THEN /\ request' =
                         [cmd |-> "login",
                          method |-> Method([username |-> cli.cfg.username,
                                             password |-> cli.cfg.password], None),
                          headers |-> Headers',
                          body |-> [username |-> cli.cfg.username,
                                    password |-> cli.cfg.password]]
                    /\ reply' = NoReply
                    /\ cli' = [cli EXCEPT !.pc = "login"]
               ELSE /\ cli' = [cli EXCEPT !.pc = "open"]
                    /\ UNCHANGED <<request, reply>>
            /\ UNCHANGED result
    /\ UNCHANGED <<user_downloads_remaining, local_files>>
    /\ UNCHANGED <<hashVars, outcome, threadVars, codecVars>>

\* main.py:135-141: a login that raised ends the command; otherwise
\* open(output_file, "wb") makes the file or empties it, and api.download is
\* called
cli_open ==
    /\ cli.pc \in {"login", "open"}
    /\ request = NoRequest
    /\ IF cli.pc = "login" /\ result.kind = "raise"
       THEN /\ cli' = [cli EXCEPT !.pc = "failed"]
            /\ UNCHANGED <<local_files, request, reply, result>>
       ELSE /\ local_files' =
                  write(local_files, get_srt_output_file(cli.args), "")
            /\ download_begin(cli.args.file_id)
            /\ cli' = [cli EXCEPT !.pc = "download"]
    /\ UNCHANGED <<token, user_downloads_remaining, constructed>>
    /\ UNCHANGED <<hashVars, outcome, threadVars, codecVars>>

\* main.py:141-142: fp.write(...) of what download returned, unless it raised;
\* None is no bytes and write raises TypeError
cli_write ==
    /\ cli.pc = "download"
    /\ request = NoRequest
    /\ IF result.kind = "raise"
       THEN /\ cli' = [cli EXCEPT !.pc = "failed"]
            /\ UNCHANGED <<local_files, result>>
       ELSE IF result.type = "NoneType"
       THEN /\ cli' = [cli EXCEPT !.pc = "failed"]
            /\ result' = ClientRaise("write", "TypeError",
                             <<"a bytes-like object is required, not 'NoneType'">>)
            /\ UNCHANGED local_files
       ELSE /\ cli' = [cli EXCEPT !.pc = "done"]
            /\ local_files' = write(local_files, get_srt_output_file(cli.args),
                                    result.json.content)
            /\ UNCHANGED result
    /\ UNCHANGED <<token, user_downloads_remaining, request, reply, constructed>>
    /\ UNCHANGED <<hashVars, outcome, threadVars, codecVars>>

InitCli ==
    /\ fsExists = FALSE
    /\ fsSize = 0
    /\ fsPat = "zero"
    /\ pc = "idle"
    /\ size = 0
    /\ hash = Zero
    /\ iter = 0
    /\ pos = 0
    /\ handles = 0
    /\ outcome = NoOutcome
    /\ remembered = NoOutcome
    /\ OneThread
    /\ NoParse
    /\ Construct(None, None)
    /\ user_downloads_remaining = NoAttribute
    /\ request = NoRequest
    /\ reply = NoReply
    /\ result = NoResult
    /\ \E cfg \in Configs, args \in CliArgs :
         /\ cli = [pc |-> "start", cfg |-> cfg, args |-> args]
         /\ local_files \in
               {[f \in {} |-> ""],
                [f \in {get_srt_output_file(args)} |-> OldContent]}

NextCli ==
    \/ _get_api
    \/ Respond
    \/ login_return
    \/ cli_open
    \/ download_return
    \/ download_fetched
    \/ cli_write

SpecCli == InitCli /\ [][NextCli]_vars

(* ----------------------- the reference checksum ----------------------- *)

RECURSIVE LaneSum(_, _, _, _, _)
\* the sum of byte j of the chunks lo..hi of the window that starts at base
LaneSum(pat, base, j, lo, hi) ==
    IF lo = hi THEN Byte(pat, base + bytesize * lo + j)
    ELSE LET mid == (lo + hi) \div 2
         IN  LaneSum(pat, base, j, lo, mid) + LaneSum(pat, base, j, mid + 1, hi)

\* byte j (0..7) of n, plus byte j of every chunk of the first and last window
Lane(pat, n, j) ==
    (IF j < 4 THEN (n \div Pow256(j)) % Radix ELSE 0)
    + LaneSum(pat, 0, j, 0, WindowChunks - 1)
    + LaneSum(pat, n - WindowBytes, j, 0, WindowChunks - 1)

RECURSIVE Carried(_, _)
\* lanes[1..j] with the carries moved up: <<digits, carry out>>
Carried(lanes, j) ==
    IF j = 0 THEN <<"", 0>>
    ELSE LET below == Carried(lanes, j - 1)
             v     == lanes[j] + below[2]
         IN  <<HexDigits[((v % Radix) \div 16) + 1] \o HexDigits[(v % 16) + 1] \o below[1],
               v \div Radix>>

\* (n + the unsigned chunks of both windows) mod 2^64 as 16 hex digits
Checksum(pat, n) ==
    Carried(<<Lane(pat, n, 0), Lane(pat, n, 1), Lane(pat, n, 2), Lane(pat, n, 3),
              Lane(pat, n, 4), Lane(pat, n, 5), Lane(pat, n, 6), Lane(pat, n, 7)>>,
            bytesize)[1]

\* the step on which get_hash returns its value
Returning == pc = "L90" /\ pc' = "idle"

In64(x) == x.top = 0 /\ \A k \in Digits : x.d[k] \in 0..(Radix - 1)

(* -------------------------------- claims ------------------------------ *)

IsNotFound(o) ==
    /\ o.kind = "raise"
    /\ \/ o.type = "FileNotFoundError"
       \/ o.type = "OpenSubtitlesFileException" /\ o.args[1] = "File not exists: "

IsTooSmall(o) ==
    /\ o.kind = "raise"
    /\ o.type = "OpenSubtitlesFileException"
    /\ o.args[1] = "SizeError"

IsIoFailure(o) ==
    /\ o.kind = "raise"
    /\ o.type \in {"OSError", "struct.error"}

\* the exception names the number n
Carries(o, n) == \E a \in 1..Len(o.args) : o.args[a] = ToString(n)

\* get_hash takes a step from one of the lines in at
StepsFrom(at) == pc \in at /\ (pc' # pc \/ iter' # iter)

C4_ReadFailureSurfaces ==
    [][/\ StepsFrom({"L78", "L85"}) /\ ReadLen # bytesize
            => pc' = "idle" /\ IsIoFailure(outcome') /\ outcome'.kind # "return"
       /\ StepsFrom({"L78", "L84", "L85"}) /\ pc' = "idle"
            => IsIoFailure(outcome') /\ outcome'.kind # "return"]_vars

C4_Witness == outcome = StructError /\ fsSize = 131071 /\ pc = "idle"

\* C5: get_hash holds no file object when it has returned or raised, and none
\* before its existence and size checks have passed.
C5_HandleReleased ==
    /\ handles \in {0, 1}
    /\ pc \in {"idle", "L67", "L69", "L73", "L76"} => handles = 0

C5_Witness == outcome = StructError /\ pc = "idle" /\ handles = 0

RECURSIVE HexOfNat(_, _)
\* n in hexadecimal, padded with zeros to width digits
HexOfNat(n, width) ==
    IF width = 0 THEN ""
    ELSE HexOfNat(n \div 16, width - 1) \o HexDigits[(n % 16) + 1]

\* the first and the last 65536 bytes of the first n bytes of pat are zero
ZeroWindows(pat, n) ==
    \A k \in 0..(WindowBytes - 1) : Byte(pat, k) = 0 /\ Byte(pat, n - WindowBytes + k) = 0

\* C6: when the first and last 65536 bytes are zero get_hash returns the size
\* in 16 hex digits; the all-zero file of 131072 bytes gives "0000000000020000".
C6_ZeroWindowsGiveSize ==
    [][Returning /\ ZeroWindows(fsPat, size)
         => /\ outcome' = Return("get_hash", "str", HexOfNat(size, 16))
            /\ size = 131072 => outcome'.value = "0000000000020000"]_vars

C6_Witness ==
    /\ outcome = Return("get_hash", "str", "0000000000020000")
    /\ fsPat = "zero" /\ fsSize = 131072

\* C7: the first window is read from offset 0 and the second from size - 65536,
\* which is never clamped to 0; the second starts at or after the end of the
\* first, and exactly at its end only for a size of 131072.
C7_WindowsDisjoint ==
    /\ pc = "L78" => pos = bytesize * iter
    /\ pc = "L84" => SeekTarget(size) = size - WindowBytes /\ size - WindowBytes > 0
    /\ pc = "L85" => /\ pos = (size - WindowBytes) + bytesize * iter
                     /\ size - WindowBytes >= WindowBytes
                     /\ (size - WindowBytes = WindowBytes) <=> (size = 131072)

C7_Witness == pc = "L85" /\ size = 131072 /\ iter = 1 /\ pos = 65544

\* struct.unpack("Q", buffer): the same 8 bytes read as an unsigned number
unpack_Q(buffer) == [top |-> 0, d |-> [k \in Digits |-> buffer[k]]]

\* C8: adding a chunk as a signed number and masking gives the same accumulator
\* as adding it as the unsigned number of the same 8 bytes and masking.
C8_SignednessIrrelevant ==
    (pc \in {"L78", "L85"} /\ ReadLen = bytesize)
        => AddChunk(hash, ReadBuffer) = And64(Plus(hash, unpack_Q(ReadBuffer)))

\* a chunk that takes the sum below zero before the mask
C8_Witness ==
    /\ pc \in {"L78", "L85"} /\ ReadLen = bytesize
    /\ Plus(hash, unpack_q(ReadBuffer)).top = -1
    /\ Plus(hash, unpack_Q(ReadBuffer)).top = 0

C11_ThreadsDoNotInterfere ==
    [][/\ running' = running => parked' = parked
       /\ running' # running => Frame' = parked /\ parked' = Frame
       /\ pc # "idle" /\ pc' = "idle" /\ running' = running
            => Returning \/ outcome' = IOFailed("get_hash")
       /\ Returning /\ running' = running
            => outcome' = Return("get_hash", "str", Checksum(fsPat, fsSize))]_vars

\* the second thread has returned the value of its file while the first waits
\* in the middle of its second loop
C11_Witness ==
    /\ running = 2
    /\ pc = "idle"
    /\ outcome = Return("get_hash", "str", "9f6020dfa0610000")
    /\ parked.pc = "L85"
    /\ parked.iter = PreemptEvery
    /\ parked.fsSize = 196608

\* "Subtitle Line " and a digit
SubtitleLine(c) ==
    <<"S", "u", "b", "t", "i", "t", "l", "e", " ", "L", "i", "n", "e", " ", c>>

ExampleCues ==
    <<[index |-> 1, start |-> 10500, end |-> 14000, text |-> <<SubtitleLine("1")>>],
      [index |-> 2, start |-> 15000, end |-> 18500, text |-> <<SubtitleLine("2")>>]>>

\* C12: the example text of two well-formed cues parses to exactly the cues
\* {1, 10500, 14000, ["Subtitle Line 1"]} and {2, 15000, 18500,
\* ["Subtitle Line 2"]}, in that order: parse_srt returns that list, and the
\* sequence yields them one after the other and then ends without an error.
C12_ExampleYieldsTwoCues ==
    /\ outcome.op = "parse_srt" /\ outcome.input = "example"
         => outcome.kind = "return" /\ outcome.cues = ExampleCues
    /\ document = Texts("example") /\ gen.state # "none"
         => /\ gen.state # "failed"
            /\ consumed = SubSeq(ExampleCues, 1, gen.yielded)
            /\ gen.state = "exhausted" => gen.yielded = 2

C12_Witness ==
    /\ outcome.op = "parse_srt"
    /\ outcome.input = "example"
    /\ Len(outcome.cues) = 2
    /\ outcome.cues[2].end = 18500

\* S with the cues numbered 1..N in order
Renumbered(S) == [k \in 1..Len(S) |-> [S[k] EXCEPT !.index = k]]

BadTimeLineAt(text, L) ==
    LET lines == LinesOf(text)
    IN  /\ L \in 2..Len(lines)
        /\ AllDigits(Trim(lines[L - 1]))
        /\ ~IsTimeLine(lines[L])

\* C14: parse is fail-fast.  parse_srt of "1\nbad line\nText\n\n" raises
\* BadTimeRange with line 2 and returns no cue; whenever the sequence raises
\* BadTimeRange the line it names is, counted from 1, a line of the text that
\* follows an index line and is no time line; the text with the malformed cue
\* between two well-formed ones yields the first cue and then fails at line 6;
\* after the failure the sequence yields nothing more.
C14_FailFast ==
    /\ [](/\ (outcome.op = "parse_srt" /\ outcome.input = "badtime")
               => outcome = [kind |-> "raise", op |-> "parse_srt",
                             input |-> "badtime", type |-> "FormatError",
                             args |-> <<"BadTimeRange", "2">>, value |-> "",
                             cues |-> <<>>]
          /\ (outcome.op = "next" /\ outcome.type = "FormatError"
                /\ outcome.args[1] = "BadTimeRange")
               => \E L \in 1..Len(document) :
                     outcome.args[2] = ToString(L) /\ BadTimeLineAt(document, L)
          /\ (document = Content("goodbadgood") /\ gen.state # "none")
               => /\ gen.yielded <= 1
                  /\ consumed = SubSeq(ExampleCues, 1, gen.yielded)
                  /\ gen.state # "exhausted"
                  /\ gen.state = "failed" => gen.yielded = 1
          /\ (document = Content("badtime") /\ gen.state # "none")
               => gen.yielded = 0 /\ gen.state # "exhausted")
    /\ [][/\ (gen.state = "open" /\ gen'.state = "failed"
                /\ document = Content("goodbadgood"))
               => outcome'.args = <<"BadTimeRange", "6">>
          /\ (gen.state = "failed" /\ outcome'.op = "next")
               => /\ gen' = gen
                  /\ consumed' = consumed
                  /\ outcome'.type = "StopIteration"]_vars

\* the consumer has got the first cue, the sequence has failed on the second,
\* and a further next has found it ended
C14_Witness ==
    /\ document = Content("goodbadgood")
    /\ gen.state = "failed"
    /\ Len(consumed) = 1
    /\ outcome.type = "StopIteration"

\* how many well-formed cues a text has before its first malformed one
WellFormedBefore(text) ==
    CASE text = Content("badtime") -> 0
      [] text = Content("goodbadgood") -> 1

\* C15: the sequence parse returns is lazy.  The call of parse never fails,
\* whatever the text; the consumer gets the well-formed cues that precede the
\* first malformed cue in order, and the error is raised by the request that
\* reaches the malformed cue: not at the call, not while a well-formed cue is
\* still to come, and with every cue before it already handed over.
C15_FailureAtConsumption ==
    /\ [](/\ outcome.op = "parse" => outcome.kind = "return"
          /\ gen.state # "none"
               => \A r \in {parse(document)} :
                    /\ gen.yielded <= Len(r.cues)
                    /\ consumed = SubSeq(r.cues, 1, gen.yielded)
                    /\ gen.state = "failed"
                         => r.error # "none" /\ consumed = r.cues)
    /\ [][/\ outcome'.op = "parse"
               => gen'.state = "open" /\ consumed' = <<>>
          /\ (outcome'.op = "next" /\ outcome'.type = "FormatError"
                /\ gen.state = "open")
               => /\ gen'.state = "failed"
                  /\ document \in {Content("badtime"), Content("goodbadgood")}
                  /\ Len(consumed) = WellFormedBefore(document)
                  /\ consumed' = consumed
          /\ (outcome'.op = "next" /\ gen.state = "open"
                /\ document \in {Content("badtime"), Content("goodbadgood")})
               => IF Len(consumed) < WellFormedBefore(document)
                  THEN outcome'.kind = "return"
                       /\ consumed' = Append(consumed, outcome'.cues[1])
                  ELSE outcome'.kind = "raise" /\ outcome'.type = "FormatError"]_vars

\* the sequence of the text with the malformed cue in the middle is open, one
\* cue has been handed over and nothing has failed yet
C15_Witness ==
    /\ document = Content("goodbadgood")
    /\ gen = [state |-> "open", yielded |-> 1]
    /\ outcome.op = "next"
    /\ outcome.kind = "return"
    /\ consumed = <<ExampleCues[1]>>

\* the text ends with its last text line, with or without a line terminator
EndsWithoutBlankLine(text) ==
    /\ text # <<>>
    /\ \A lines \in {SplitLines(text)} : ~Blank(lines[Len(lines)])

\* C16: a well-formed last cue that is followed by the end of the text and no
\* blank line is yielded all the same: the example text without its last line
\* terminator, and as it is, yields the same two cues as with a blank line
\* after its last cue; no text that ends without a blank line after a
\* well-formed last cue makes the sequence raise UnexpectedEof.
C16_LastCueNeedsNoBlankLine ==
    /\ \A name \in {"noeol", "example", "blankend"} :
         (document = Content(name) /\ gen.state # "none")
            => /\ gen.state # "failed"
               /\ consumed = SubSeq(ExampleCues, 1, gen.yielded)
               /\ gen.state = "exhausted" => consumed = ExampleCues
    /\ (gen.state # "none" /\ EndsWithoutBlankLine(document)
          /\ (source # <<>> \/ \E f \in StampFields : document = TimedText(f)))
         => /\ gen.state # "failed"
            /\ ~(outcome.type = "FormatError" /\ outcome.op = "next")
            /\ gen.state = "exhausted" => Len(consumed) >= 1

\* the example text cut after "Subtitle Line 2" has given both cues
C16_Witness ==
    /\ document = Content("noeol")
    /\ document[Len(document)] = "2"
    /\ gen.state = "exhausted"
    /\ consumed = ExampleCues

\* ((H*60+M)*60+S)*1000+mmm of the fields as written
Linear(f) == ((f.H * 60 + f.M) * 60 + f.S) * 1000 + f.mmm

\* C17: a timestamp HH:MM:SS,mmm is read as ((H*60+M)*60+S)*1000+mmm and its
\* fields are not checked against a range: a cue whose time line has 75
\* minutes or 61 seconds is yielded like any other, and its start and end are
\* that sum of the fields as written.
C17_FieldsAddLinearly ==
    \A f \in StampFields :
        (document = TimedText(f) /\ gen.state # "none")
          => /\ gen.state # "failed"
             /\ gen.yielded <= 1
             /\ gen.state = "exhausted" => gen.yielded = 1
             /\ gen.yielded = 1
                  => /\ Len(consumed) = 1
                     /\ consumed[1].start = Linear(f)
                     /\ consumed[1].end = Linear([f EXCEPT !.H = 99])

\* 00:75:61,999 has been read as 75 minutes, 61 seconds and 999 milliseconds
C17_Witness ==
    /\ document = TimedText([H |-> 0, M |-> 75, S |-> 61, mmm |-> 999])
    /\ Len(consumed) = 1
    /\ consumed[1].start = 4561999
    /\ consumed[1].end = 360961999


\* a login whose response has parsed and has both keys login reads
LoginSucceeds ==
    /\ request.cmd = "login"
    /\ reply.kind = "ok"
    /\ {"token", "user"} \subseteq DOMAIN reply.json
    /\ request' = NoRequest

\* C18: a successful login returns the server's response unchanged and
\* leaves the response's token as the session token and the response's
\* allowed_downloads as the remaining-downloads count.
C18_LoginKeepsTokenAndCount ==
    [][LoginSucceeds =>
          /\ result'.kind = "return"
          /\ result'.op = "login"
          /\ result'.json = reply.json
          /\ token' = reply.json.token
          /\ user_downloads_remaining' = <<reply.json.user.allowed_downloads>>]_vars

C18_Witness ==
    /\ result.kind = "return"
    /\ result.op = "login"
    /\ result.json.status = 200
    /\ token = "thegeneratedapitoken"
    /\ user_downloads_remaining = <<20>>

\* a login whose request failed: refused status, no response, no JSON
LoginFails ==
    /\ request.cmd = "login"
    /\ reply.kind \in {"http_error", "transport_error", "bad_json"}
    /\ request' = NoRequest

\* C19: when the login request fails, login raises OpenSubtitlesException
\* carrying the failure text, and the session token and the
\* remaining-downloads count are what they were before the call.
C19_FailedLoginChangesNothing ==
    [][LoginFails =>
          /\ result'.kind = "raise"
          /\ result'.op = "login"
          /\ result'.type = "OpenSubtitlesException"
          /\ result'.args[2] = reply.text
          /\ reply.kind = "http_error"
                => result'.args[1] = "Failed with HTTP Error: "
          /\ token' = token
          /\ user_downloads_remaining' = user_downloads_remaining]_vars

C19_Witness ==
    /\ result.kind = "raise"
    /\ result.op = "login"
    /\ result.args = <<"Failed with HTTP Error: ",
                       "401 Client Error: Unauthorized">>
    /\ token = "thegeneratedapitoken"
    /\ user_downloads_remaining = <<20>>

\* save_content_locally has returned
Saved == result.kind = "return" /\ result.op = "save_content_locally"

\* C20: save_content_locally(content, filename) writes exactly content to
\* a file of downloads_dir whose name is the given filename and returns
\* that file's path; without a filename the name is generated, ends in
\* .srt, and the file holds exactly content.
C20_SavedUnderGivenName ==
    Saved =>
        /\ Head(result.path) = downloads_dir
        /\ result.path \in DOMAIN local_files
        /\ local_files[result.path] = result.input.content
        /\ result.input.filename # <<>>
              => PathName(result.path) = result.input.filename
        /\ result.input.filename = <<>>
              => PathName(result.path)[Len(PathName(result.path))] = ".srt"

\* the call of the test: the file is there, under the name with a second .srt
C20_Witness ==
    /\ Saved
    /\ result.input = [content |-> "This is some test content.",
                       filename |-> <<"test_file", ".srt">>]
    /\ result.path = <<"test_downloads", "test_file", ".srt", ".srt">>
    /\ local_files[result.path] = "This is some test content."


\* the two files agree in size, in the first and in the last 65536 bytes
SameWindows(p, q, n, m) ==
    /\ n = m
    /\ n >= 2 * WindowBytes
    /\ \A k \in 0..(WindowBytes - 1) :
          /\ Byte(p, k) = Byte(q, k)
          /\ Byte(p, n - WindowBytes + k) = Byte(q, n - WindowBytes + k)

BothReturned ==
    /\ outcome.kind = "return"
    /\ outcome.op = "get_hash"
    /\ parked.outcome.kind = "return"
    /\ parked.outcome.op = "get_hash"

\* C28: movieHash depends only on the size and on the first and the last
\* 65536 bytes: two files of equal size >= 131072 that agree on the two
\* windows have the same movieHash whatever lies between the windows.
C28_OnlyWindowsCount ==
    (BothReturned /\ SameWindows(fsPat, parked.fsPat, fsSize, parked.fsSize))
        => outcome.value = parked.outcome.value

C28_Witness ==
    /\ BothReturned
    /\ SameWindows(fsPat, parked.fsPat, fsSize, parked.fsSize)
    /\ \E k \in WindowBytes..(fsSize - WindowBytes - 1) :
          Byte(fsPat, k) # Byte(parked.fsPat, k)
    /\ outcome.value = parked.outcome.value


\* C22: str_to_bytes gives the UTF-8 bytes of a string and is the inverse
\* of bytes_to_str: str_to_bytes(bytes_to_str(b)) = b for every UTF-8 byte
\* string b, and bytes_to_str(str_to_bytes(s)) = s for every string s.
C22_ConversionsAreInverse ==
    /\ (result.op = "str_to_bytes" /\ result.input.content.type = "str")
          => /\ result.kind = "return"
             /\ result.json.type = "bytes"
             /\ utf8_decode(result.json.data) = result.input.content.data
             /\ bytes_to_str(result.json).json = result.input.content
    /\ (result.op = "bytes_to_str" /\ result.input.content.type = "bytes"
          /\ result.kind = "return")
          => /\ str_to_bytes(result.json).kind = "return"
             /\ str_to_bytes(result.json).json = result.input.content

\* str_to_bytes called with the string "1"
C22_Witness ==
    /\ result.op = "str_to_bytes"
    /\ result.input.content = [type |-> "str", data |-> <<49>>]
    /\ result.kind = "raise"
    /\ result.type = "AttributeError"


\* a logout the server has accepted
LogoutSucceeds ==
    /\ request.cmd = "logout"
    /\ reply.kind = "ok"
    /\ request' = NoRequest

\* C23: logout destroys the token and ends the session: after a successful
\* logout the client holds no session token, so that no request sent before
\* the next login carries an authorization header.
C23_LogoutDropsToken ==
    [][LogoutSucceeds =>
          /\ token' = None
          /\ "authorization" \notin DOMAIN Headers']_vars

\* logout has returned the server's answer and the next request still
\* carries the token
C23_Witness ==
    /\ result.op = "logout"
    /\ result.kind = "return"
    /\ request.cmd = "infos/user"
    /\ "authorization" \in DOMAIN request.headers
    /\ request.headers.authorization = "thegeneratedapitoken"

\* no call of the client is under way and the count is set and used up
QuotaUsedUp ==
    /\ request = NoRequest
    /\ user_downloads_remaining # NoAttribute
    /\ user_downloads_remaining[1] <= 0

C25_DownloadOnFreshClient ==
    (/\ result.op = "download"
     /\ request = NoRequest
     /\ user_downloads_remaining = NoAttribute
     /\ result.input.file_id # "")
        => result.kind = "return"

C25_Witness ==
    /\ result.op = "download"
    /\ result.kind = "raise"
    /\ result.type = "AttributeError"
    /\ result.input.file_id = "12345"
    /\ token = None
    /\ user_downloads_remaining = NoAttribute

\* a request of send_api leaves
Sending == request = NoRequest /\ request' # NoRequest

\* login has got a response that parsed and holds a token
TokenReceived ==
    /\ request.cmd = "login"
    /\ reply.kind = "ok"
    /\ "token" \in DOMAIN reply.json
    /\ request' = NoRequest

Given(args) == {i \in 1..Len(SearchParams) : args[SearchParams[i]] # None}

\* the k-th of them in the order of declaration
GivenAt(args, k) ==
    CHOOSE i \in Given(args) : Cardinality({j \in Given(args) : j < i}) = k - 1

\* name=value for each of them, joined by &
ExpectedQuery(args) ==
    LET n == Cardinality(Given(args))
        pair(k) == SearchParams[GivenAt(args, k)] \o "=" \o
                   args[SearchParams[GivenAt(args, k)]]
    IN  CASE n = 0 -> ""
          [] n = 1 -> pair(1)
          [] n = 2 -> pair(1) \o "&" \o pair(2)
          [] n = 3 -> pair(1) \o "&" \o pair(2) \o "&" \o pair(3)
          [] n = 4 -> pair(1) \o "&" \o pair(2) \o "&" \o pair(3)
                         \o "&" \o pair(4)

\* search may send: a parameter is given and languages, if given, is known
Searchable(args) ==
    /\ Given(args) # {}
    /\ args["languages"] # None => args["languages"] \in language_codes

\* the step that calls search
SearchCalled ==
    /\ request = NoRequest
    /\ result' # result
    /\ "args" \in DOMAIN result'.input

\* C27: search sends no request unless a parameter is not None and
\* languages, when given, is a known language code; otherwise it fails
\* before any request is sent.  The query string of a request is the
\* non-None parameters as name=value, joined by &, in declaration order.
C27_SearchChecksThenSends ==
    [][SearchCalled =>
          IF Searchable(result'.input.args)
          THEN /\ request'.cmd =
                     "subtitles?" \o ExpectedQuery(result'.input.args)
               /\ result'.kind = "none"
          ELSE /\ request' = NoRequest
               /\ result'.kind = "raise"
               /\ result'.type = "AssertionError"]_vars

\* a search with four parameters is on its way
C27_Witness ==
    /\ request.cmd =
          "subtitles?ai_translated=exclude&languages=en&query=example_query&year=2023"
    /\ result.input.args["languages"] = "en"


\* C21: the client offers download_and_parse: it calls download once with
\* the keyword arguments it was given and returns the list of the cues
\* that parse yields for the UTF-8 decoding of the downloaded bytes.
C21_DownloadAndParseReturnsCues ==
    result.op = "download_and_parse"
        => /\ result.kind = "return"
           /\ result.type = "list"

\* the call of the test
C21_Witness ==
    /\ result.op = "download_and_parse"
    /\ result.input.file_id = "12345"
    /\ result.kind = "raise"
    /\ result.type = "AttributeError"


\* the command has ended without subtitle content
NoContent == cli.pc = "failed"

\* C29: the download command creates or overwrites the output file only
\* after it has the subtitle content: whenever the download yields no
\* content an output file that was there keeps its content and no empty
\* file is left behind.
C29_OutputOnlyWithContent ==
    NoContent =>
        \A f \in DOMAIN local_files : local_files[f] = OldContent

\* the count was used up: download returned None and the file that was
\* there is empty
C29_Witness ==
    /\ NoContent
    /\ result.type = "TypeError"
    /\ user_downloads_remaining = <<0>>
    /\ get_srt_output_file(cli.args) \in DOMAIN local_files
    /\ local_files[get_srt_output_file(cli.args)] = ""

\* a request of send_api made by the client the command built
CliRequest ==
    /\ cli.pc # "none"
    /\ request # NoRequest
    /\ request.headers # NoJson

\* C30: every request of a client built by _get_api carries the configured
\* API key, or the built-in one when none is configured, in its API-Key
\* header and the application name and version in its User-Agent header.
C30_CliHeaders ==
    CliRequest =>
        /\ request.headers["API-Key"] =
              IF cli.cfg.api_key \notin {None, ""} THEN cli.cfg.api_key
              ELSE API_KEY
        /\ request.headers["User-Agent"] = API_APP

C30_Witness ==
    /\ CliRequest
    /\ request.cmd = "download"
    /\ request.headers["API-Key"] = API_APP
    /\ request.headers["User-Agent"] = "configured-key"

====
